---- MODULE Spec2Model ----
(***************************************************************************)
(* A model of tools/generate_stops_geojson.py: the GTFS -> GeoJSON batch   *)
(* pipeline run by main().  Text is modelled as sequences of one-character *)
(* strings, so that prefixing, stripping, regex substitution, upper-casing *)
(* and number parsing are computed and not assumed.  A Python dict (which  *)
(* keeps insertion order) is a sequence of [k, v] records with distinct    *)
(* keys.  A CSV row is a function from the table's header fields to text.  *)
(***************************************************************************)
EXTENDS Integers, Sequences, FiniteSets, TLC

VARIABLES
    args,               \* parsed command line (parse_args)
    localDir,           \* the file system under --local: file name -> archive content
    urlSources,         \* the lines of the --urls file with what each download yields
    outInitial,         \* the output path's content before the run
    pc,                 \* main()'s position
    tmpdir,             \* the mkdtemp directory: [exists, files]
    archives,           \* main()'s list of (agency code, path)
    datasets,           \* extract_relevant_tables' dict
    consolidated_stops, \* harmonize_and_consolidate's OrderedDict
    stop_to_agency,     \* harmonize_and_consolidate's side index
    clean_stops,        \* filter_and_clean_stops' OrderedDict
    route_info,         \* build_route_mappings' first dict
    trip_to_route,      \* build_route_mappings' second dict
    stop_routes,        \* build_stop_to_routes' dict (or {} when skipped)
    geo,                \* create_geojson's features list
    outFile,            \* the output path's content
    exitCode            \* the process exit status once main() has ended

vars == <<args, localDir, urlSources, outInitial, pc, tmpdir, archives, datasets,
          consolidated_stops, stop_to_agency, clean_stops, route_info,
          trip_to_route, stop_routes, geo, outFile, exitCode>>

----------------------------------------------------------------------------
(* Text *)

\* The characters of the model in code point order (Python compares str by
\* code point).
CharOrder ==
    <<" ", "+", "-", ".", "0", "1", "2", "3", "4", "5", "7", "A", "B", "F", "G",
      "I", "N", "P", "Q", "R", "S", "T", "X", "Y", "Z", "_", "a", "b", "f",
      "g", "i", "n", "p", "q", "r", "s", "t", "x", "y", "z">>

Ord(c) == CHOOSE i \in 1..Len(CharOrder) : CharOrder[i] = c

Digits == {"0", "1", "2", "3", "4", "5", "7"}
UpperLetters == {"A", "B", "F", "G", "I", "N", "P", "Q", "R", "S", "T", "X", "Y", "Z"}
LowerLetters == {"a", "b", "f", "g", "i", "n", "p", "q", "r", "s", "t", "x", "y", "z"}

DigitVal(c) ==
    CASE c = "0" -> 0 [] c = "1" -> 1 [] c = "2" -> 2 [] c = "3" -> 3
      [] c = "4" -> 4 [] c = "5" -> 5 [] c = "7" -> 7

\* str.upper() / str.lower() on one character
UpperChar(c) ==
    IF c \in LowerLetters
    THEN CHOOSE u \in UpperLetters : Ord(u) - Ord("A") = Ord(c) - Ord("a")
    ELSE c

LowerChar(c) ==
    IF c \in UpperLetters
    THEN CHOOSE l \in LowerLetters : Ord(l) - Ord("a") = Ord(c) - Ord("A")
    ELSE c

Upper(s) == [i \in 1..Len(s) |-> UpperChar(s[i])]
Lower(s) == [i \in 1..Len(s) |-> LowerChar(s[i])]

\* str.strip(): leading and trailing whitespace removed
RECURSIVE LStrip(_)
LStrip(s) == IF s # <<>> /\ Head(s) = " " THEN LStrip(Tail(s)) ELSE s

RECURSIVE RStrip(_)
RStrip(s) ==
    IF s # <<>> /\ s[Len(s)] = " " THEN RStrip(SubSeq(s, 1, Len(s) - 1)) ELSE s

Strip(s) == RStrip(LStrip(s))

\* `a or b` on text (None and '' are both falsy)
Or(a, b) == IF a # <<>> THEN a ELSE b

\* str < str
RECURSIVE StrLess(_, _)
StrLess(a, b) ==
    IF b = <<>> THEN FALSE
    ELSE IF a = <<>> THEN TRUE
    ELSE IF Head(a) = Head(b) THEN StrLess(Tail(a), Tail(b))
    ELSE Ord(Head(a)) < Ord(Head(b))

\* sorted(list(S)) for a set S of text
RECURSIVE Sorted(_)
Sorted(S) ==
    IF S = {} THEN <<>>
    ELSE LET m == CHOOSE x \in S : \A y \in S \ {x} : StrLess(x, y)
         IN  <<m>> \o Sorted(S \ {m})

\* re.sub(r'[^...]+', '_', s): every maximal run of characters outside Keep
\* becomes one underscore
RECURSIVE ReSubRuns(_, _, _)
ReSubRuns(s, Keep, inRun) ==
    IF s = <<>> THEN <<>>
    ELSE IF Head(s) \in Keep THEN <<Head(s)>> \o ReSubRuns(Tail(s), Keep, FALSE)
    ELSE IF inRun THEN ReSubRuns(Tail(s), Keep, TRUE)
    ELSE <<"_">> \o ReSubRuns(Tail(s), Keep, TRUE)

ReSub(s, Keep) == ReSubRuns(s, Keep, FALSE)

\* the position of the last "." of s, 0 when there is none
LastDot(s) ==
    IF \E i \in 1..Len(s) : s[i] = "."
    THEN CHOOSE i \in 1..Len(s) : s[i] = "." /\ \A j \in (i+1)..Len(s) : s[j] # "."
    ELSE 0

\* pathlib's PurePath.stem: the name without its last suffix; a name whose only
\* dot is its first or last character has no suffix
Stem(name) ==
    LET i == LastDot(name)
    IN  IF 1 < i /\ i < Len(name) THEN SubSeq(name, 1, i - 1) ELSE name

ZipSuffix == <<".", "z", "i", "p">>

----------------------------------------------------------------------------
(* Numbers: int(text) and float(text) *)

\* digit (["_"] digit)*
IsDigitPart(s) ==
    /\ s # <<>>
    /\ \A i \in 1..Len(s) : s[i] \in Digits \cup {"_"}
    /\ s[1] \in Digits /\ s[Len(s)] \in Digits
    /\ \A i \in 1..(Len(s) - 1) : ~(s[i] = "_" /\ s[i+1] = "_")

RECURSIVE DigitsValue(_, _)
DigitsValue(s, acc) ==
    IF s = <<>> THEN acc
    ELSE IF Head(s) = "_" THEN DigitsValue(Tail(s), acc)
    ELSE DigitsValue(Tail(s), 10 * acc + DigitVal(Head(s)))

RECURSIVE CountDigits(_)
CountDigits(s) ==
    IF s = <<>> THEN 0
    ELSE (IF Head(s) = "_" THEN 0 ELSE 1) + CountDigits(Tail(s))

HasSign(s) == s # <<>> /\ Head(s) \in {"+", "-"}
Unsigned(s) == IF HasSign(s) THEN Tail(s) ELSE s
Signum(s) == IF s # <<>> /\ Head(s) = "-" THEN -1 ELSE 1

\* int(text): [ok, val]; ok is FALSE where Python raises ValueError
ParseInt(text) ==
    LET t == Strip(text)
        u == Unsigned(t)
    IN  IF IsDigitPart(u)
        THEN [ok |-> TRUE, val |-> Signum(t) * DigitsValue(u, 0)]
        ELSE [ok |-> FALSE, val |-> 0]

\* A float value: finite ones are num / 10^scale in lowest terms of ten, so that
\* equal numbers are equal values; nan and inf are values of their own.
RECURSIVE Normal(_, _)
Normal(num, scale) ==
    IF scale > 0 /\ num % 10 = 0 THEN Normal(num \div 10, scale - 1)
    ELSE [kind |-> "finite", num |-> num, scale |-> scale]

NaN == [kind |-> "nan", num |-> 0, scale |-> 0]
Inf(sign) == [kind |-> "inf", num |-> sign, scale |-> 0]

IsFinite(v) == v.kind = "finite"

\* float(text): [ok, val]; ok is FALSE where Python raises ValueError.  The
\* characters of the model hold no exponent marker.
ParseFloat(text) ==
    LET t == Strip(text)
        u == Unsigned(t)
        l == Lower(u)
        d == IF \E i \in 1..Len(u) : u[i] = "."
             THEN CHOOSE i \in 1..Len(u) : u[i] = "." /\ \A j \in 1..(i-1) : u[j] # "."
             ELSE 0
        ip == IF d = 0 THEN u ELSE SubSeq(u, 1, d - 1)
        fp == IF d = 0 THEN <<>> ELSE SubSeq(u, d + 1, Len(u))
    IN  IF l = <<"n", "a", "n">> THEN [ok |-> TRUE, val |-> NaN]
        ELSE IF l \in {<<"i", "n", "f">>, <<"i", "n", "f", "i", "n", "i", "t", "y">>}
        THEN [ok |-> TRUE, val |-> Inf(Signum(t))]
        ELSE IF /\ (ip = <<>> \/ IsDigitPart(ip))
                /\ (fp = <<>> \/ IsDigitPart(fp))
                /\ (ip # <<>> \/ fp # <<>>)
        THEN [ok |-> TRUE,
              val |-> Normal(Signum(t) * DigitsValue(ip \o fp, 0), CountDigits(fp))]
        ELSE [ok |-> FALSE, val |-> NaN]

----------------------------------------------------------------------------
(* Python dicts (insertion ordered) and CSV rows *)

Entry(k, v) == [k |-> k, v |-> v]

DictHas(d, k) == \E i \in 1..Len(d) : d[i].k = k

DictGet(d, k) == d[CHOOSE i \in 1..Len(d) : d[i].k = k].v

\* d[k] = v: a new key goes last, an old key keeps its place
DictPut(d, k, v) ==
    IF DictHas(d, k)
    THEN [i \in 1..Len(d) |-> IF d[i].k = k THEN Entry(k, v) ELSE d[i]]
    ELSE Append(d, Entry(k, v))

DictKeys(d) == [i \in 1..Len(d) |-> d[i].k]

\* `row.get(f) or ''`: the text of a field, '' when the column is absent
Get(row, f) == IF f \in DOMAIN row THEN row[f] ELSE <<>>

Alnum == Digits \cup UpperLetters \cup LowerLetters

----------------------------------------------------------------------------
(* Archive acquisition *)

TableNames == {"stops", "routes", "trips", "stop_times"}

\* read_csv_from_zip(zpath, member) or []: the rows of a table of an archive,
\* no rows when the archive has no such member
ReadTable(content, t) == IF t \in DOMAIN content THEN content[t] ELSE <<>>

EndsWith(s, suffix) ==
    /\ Len(suffix) <= Len(s)
    /\ SubSeq(s, Len(s) - Len(suffix) + 1, Len(s)) = suffix

LocalPath(name) == [where |-> "local", name |-> name]
TmpPath(name) == [where |-> "tmp", name |-> name]

\* the agency code of a local archive, from its file name
LocalAgency(name) == Upper(ReSub(Stem(name), Alnum \cup {"_"}))

\* load_gtfs_archives_from_local(folder) over the file names of the folder
load_gtfs_archives_from_local(names) ==
    LET zips == Sorted({n \in names : EndsWith(n, ZipSuffix)})
    IN  [i \in 1..Len(zips) |-> [ag |-> LocalAgency(zips[i]), path |-> LocalPath(zips[i])]]

GtfsZip == <<"g", "t", "f", "s", ".", "z", "i", "p">>

\* the temp file name of a URL, from the URL's last path segment
UrlFileName(last) == Or(ReSub(last, Alnum \cup {"_", ".", "-"}), GtfsZip)

\* the agency code of a downloaded archive
UrlAgency(fname) == Upper(Stem(fname))

\* load_gtfs_archives_from_urls(urls, tmpdir): [ok, files, out].  A download
\* that fails raises out of the loop (ok = FALSE); the files written before it
\* stay.  A later URL with the same file name overwrites the earlier file.
RECURSIVE LoadUrls(_, _, _)
LoadUrls(urls, files, out) ==
    IF urls = <<>> THEN [ok |-> TRUE, files |-> files, out |-> out]
    ELSE LET u == Head(urls)
             fname == UrlFileName(u.last)
         IN  IF ~u.ok THEN [ok |-> FALSE, files |-> files, out |-> out]
             ELSE LoadUrls(Tail(urls),
                           DictPut(files, fname, u.content),
                           Append(out, [ag |-> UrlAgency(fname), path |-> TmpPath(fname)]))

load_gtfs_archives_from_urls(urls, files) == LoadUrls(urls, files, <<>>)

\* the Dataset extract_relevant_tables builds from one archive
Dataset(content, name) ==
    [stops |-> ReadTable(content, "stops"),
     routes |-> ReadTable(content, "routes"),
     trips |-> ReadTable(content, "trips"),
     stop_times |-> ReadTable(content, "stop_times"),
     source_filename |-> name]

\* datasets[agency_code] = {...}
StoreDataset(ds, ag, d) == DictPut(ds, ag, d)

\* extract_relevant_tables(archives); read(path) is the content of the file
\* at path when the archives are read
RECURSIVE ExtractFrom(_, _, _)
ExtractFrom(ds, arch, read) ==
    IF arch = <<>> THEN ds
    ELSE LET a == Head(arch)
         IN  ExtractFrom(StoreDataset(ds, a.ag, Dataset(read[a.path], a.path.name)),
                         Tail(arch), read)

extract_relevant_tables(arch, read) == ExtractFrom(<<>>, arch, read)

----------------------------------------------------------------------------
(* Identifier Harmonizer *)

\* new_id = f'{ag}_{stop_id}' if prefix else stop_id
NewStopId(ag, stop_id, prefix) ==
    IF prefix THEN ag \o <<"_">> \o stop_id ELSE stop_id

\* dict(row) with the two side fields set
ConsolidatedRow(row, stop_id, ag) ==
    [f \in DOMAIN row \cup {"_orig_stop_id", "_agency"} |->
        IF f = "_orig_stop_id" THEN stop_id
        ELSE IF f = "_agency" THEN ag
        ELSE row[f]]

\* HarmonizeRow without the `if new_id in consolidated_stops: continue` guard: a
\* later row overwrites the earlier one
HarmonizeRowOverwriting(acc, ag, row, prefix) ==
    LET stop_id == Strip(Get(row, "stop_id"))
        new_id == NewStopId(ag, stop_id, prefix)
    IN  IF stop_id = <<>> THEN acc
        ELSE [consolidated_stops |->
                  DictPut(acc.consolidated_stops, new_id,
                          ConsolidatedRow(row, stop_id, ag)),
              stop_to_agency |-> DictPut(acc.stop_to_agency, new_id, ag)]

\* one iteration of the inner loop: a row with an empty stop_id or a new_id
\* already in the mapping is skipped
HarmonizeRow(acc, ag, row, prefix) ==
    LET stop_id == Strip(Get(row, "stop_id"))
        new_id == NewStopId(ag, stop_id, prefix)
    IN  IF stop_id = <<>> THEN acc
        ELSE IF DictHas(acc.consolidated_stops, new_id) THEN acc
        ELSE [consolidated_stops |->
                  DictPut(acc.consolidated_stops, new_id,
                          ConsolidatedRow(row, stop_id, ag)),
              stop_to_agency |-> DictPut(acc.stop_to_agency, new_id, ag)]

RECURSIVE HarmonizeRows(_, _, _, _)
HarmonizeRows(acc, ag, rows, prefix) ==
    IF rows = <<>> THEN acc
    ELSE HarmonizeRows(HarmonizeRow(acc, ag, Head(rows), prefix), ag, Tail(rows), prefix)

RECURSIVE HarmonizeDatasets(_, _, _)
HarmonizeDatasets(acc, ds, prefix) ==
    IF ds = <<>> THEN acc
    ELSE HarmonizeDatasets(HarmonizeRows(acc, Head(ds).k, Head(ds).v.stops, prefix),
                           Tail(ds), prefix)

harmonize_and_consolidate(ds, prefix) ==
    HarmonizeDatasets([consolidated_stops |-> <<>>, stop_to_agency |-> <<>>], ds, prefix)

----------------------------------------------------------------------------
(* Stop Filter *)

\* lt_i: '' is '0', an unparseable value is 0
LocationType(row) ==
    LET lt == Strip(Get(row, "location_type"))
        p == ParseInt(IF lt = <<>> THEN <<"0">> ELSE lt)
    IN  IF p.ok THEN p.val ELSE 0

LatText(row) == Or(Get(row, "stop_lat"), Get(row, "lat"))
LonText(row) == Or(Get(row, "stop_lon"), Get(row, "lon"))

\* valid_coord: both float() calls return
ValidCoord(row) == ParseFloat(LatText(row)).ok /\ ParseFloat(LonText(row)).ok

\* Mappable with the type check widened by one code: `lt_i not in (0, 1, 2)`
MappableUpToTwo(row) == ValidCoord(row) /\ LocationType(row) \in {0, 1, 2}

\* the row passes both checks of the loop body
Mappable(row) == ValidCoord(row) /\ LocationType(row) \in {0, 1}

CleanStop(sid, row) ==
    [stop_id |-> sid,
     orig_stop_id |-> Get(row, "_orig_stop_id"),
     agency |-> Get(row, "_agency"),
     stop_name |-> Or(Get(row, "stop_name"), Get(row, "stop_desc")),
     stop_code |-> Get(row, "stop_code"),
     location_type |-> LocationType(row),
     parent_station |-> Get(row, "parent_station"),
     stop_lat |-> ParseFloat(LatText(row)).val,
     stop_lon |-> ParseFloat(LonText(row)).val]

RECURSIVE FilterRows(_, _)
FilterRows(clean, cons) ==
    IF cons = <<>> THEN clean
    ELSE LET sid == Head(cons).k
             row == Head(cons).v
         IN  FilterRows(IF Mappable(row) THEN DictPut(clean, sid, CleanStop(sid, row))
                        ELSE clean,
                        Tail(cons))

filter_and_clean_stops(cons) == FilterRows(<<>>, cons)

----------------------------------------------------------------------------
(* Route Index Builder *)

\* ag_prefix = (ag + '_') if prefix else ''
AgPrefix(ag, prefix) == IF prefix THEN ag \o <<"_">> ELSE <<>>

RouteMeta(rid_p, r, ag) ==
    [route_id |-> rid_p,
     route_short_name |-> Or(Get(r, "route_short_name"), Get(r, "route_id")),
     route_long_name |-> Get(r, "route_long_name"),
     agency |-> ag]

\* the body of the routes loop
AddRoute(info, ag, r, prefix) ==
    LET rid == Strip(Get(r, "route_id"))
        rid_p == AgPrefix(ag, prefix) \o rid
    IN  IF rid = <<>> THEN info
        ELSE DictPut(info, rid_p, RouteMeta(rid_p, r, ag))

\* AddTrip that keeps the first route of a trip id: `if tid_p not in trip_to_route`
AddTripKeepingFirst(t2r, ag, t, prefix) ==
    LET tid == Strip(Get(t, "trip_id"))
        rid == Strip(Get(t, "route_id"))
    IN  IF tid = <<>> \/ rid = <<>> \/ DictHas(t2r, AgPrefix(ag, prefix) \o tid) THEN t2r
        ELSE DictPut(t2r, AgPrefix(ag, prefix) \o tid, AgPrefix(ag, prefix) \o rid)

\* the body of the trips loop
AddTrip(t2r, ag, t, prefix) ==
    LET tid == Strip(Get(t, "trip_id"))
        rid == Strip(Get(t, "route_id"))
    IN  IF tid = <<>> \/ rid = <<>> THEN t2r
        ELSE DictPut(t2r, AgPrefix(ag, prefix) \o tid, AgPrefix(ag, prefix) \o rid)

RECURSIVE AddRoutes(_, _, _, _)
AddRoutes(info, ag, rows, prefix) ==
    IF rows = <<>> THEN info
    ELSE AddRoutes(AddRoute(info, ag, Head(rows), prefix), ag, Tail(rows), prefix)

RECURSIVE AddTrips(_, _, _, _)
AddTrips(t2r, ag, rows, prefix) ==
    IF rows = <<>> THEN t2r
    ELSE AddTrips(AddTrip(t2r, ag, Head(rows), prefix), ag, Tail(rows), prefix)

RECURSIVE RouteMappings(_, _, _)
RouteMappings(acc, ds, prefix) ==
    IF ds = <<>> THEN acc
    ELSE RouteMappings(
             [route_info |-> AddRoutes(acc.route_info, Head(ds).k, Head(ds).v.routes, prefix),
              trip_to_route |-> AddTrips(acc.trip_to_route, Head(ds).k, Head(ds).v.trips, prefix)],
             Tail(ds), prefix)

build_route_mappings(ds, prefix) ==
    RouteMappings([route_info |-> <<>>, trip_to_route |-> <<>>], ds, prefix)

----------------------------------------------------------------------------
(* Stop-Route Join Engine *)

\* the body of the stop_times loop: stop_routes[sid_p].add(rid_p)
AddStopTime(sr, ag, st, t2r, prefix) ==
    LET sid == Strip(Get(st, "stop_id"))
        tid == Strip(Get(st, "trip_id"))
        sid_p == IF prefix THEN AgPrefix(ag, prefix) \o sid ELSE sid
        tid_p == IF prefix THEN AgPrefix(ag, prefix) \o tid ELSE tid
    IN  IF sid = <<>> \/ tid = <<>> THEN sr
        ELSE IF ~DictHas(t2r, tid_p) THEN sr
        ELSE DictPut(sr, sid_p,
                     (IF DictHas(sr, sid_p) THEN DictGet(sr, sid_p) ELSE {})
                        \cup {DictGet(t2r, tid_p)})

RECURSIVE AddStopTimes(_, _, _, _, _)
AddStopTimes(sr, ag, rows, t2r, prefix) ==
    IF rows = <<>> THEN sr
    ELSE AddStopTimes(AddStopTime(sr, ag, Head(rows), t2r, prefix),
                      ag, Tail(rows), t2r, prefix)

RECURSIVE JoinDatasets(_, _, _, _)
JoinDatasets(sr, ds, t2r, prefix) ==
    IF ds = <<>> THEN sr
    ELSE JoinDatasets(AddStopTimes(sr, Head(ds).k, Head(ds).v.stop_times, t2r, prefix),
                      Tail(ds), t2r, prefix)

\* {k: sorted(list(v)) for k, v in stop_routes.items()}
SortedLists(sr) == [i \in 1..Len(sr) |-> Entry(sr[i].k, Sorted(sr[i].v))]

build_stop_to_routes(ds, t2r, prefix) == SortedLists(JoinDatasets(<<>>, ds, t2r, prefix))

----------------------------------------------------------------------------
(* Feature Assembler *)

\* the display string of one route id of rlist
RouteLabel(rid, info) ==
    IF DictHas(info, rid) /\ DictGet(info, rid).route_short_name # <<>>
    THEN DictGet(info, rid).route_short_name
    ELSE rid

\* stop_routes.get(sid, [])
RoutesOf(sr, sid) == IF DictHas(sr, sid) THEN DictGet(sr, sid) ELSE <<>>

RoutesServing(rlist, info) == [i \in 1..Len(rlist) |-> RouteLabel(rlist[i], info)]

\* Coordinates with the pair transposed: [lat, lon]
CoordinatesLatFirst(s) == <<s.stop_lat, s.stop_lon>>

Coordinates(s) == <<s.stop_lon, s.stop_lat>>

Feature(sid, s, sr, info) ==
    [id |-> sid,
     coordinates |-> Coordinates(s),
     properties |->
        [stop_id |-> s.stop_id,
         orig_stop_id |-> s.orig_stop_id,
         agency |-> s.agency,
         name |-> s.stop_name,
         code |-> s.stop_code,
         location_type |-> s.location_type,
         parent_station |-> s.parent_station,
         routes_serving |-> RoutesServing(RoutesOf(sr, sid), info)]]

\* the features list of create_geojson
create_geojson(clean, sr, info) ==
    [i \in 1..Len(clean) |-> Feature(clean[i].k, clean[i].v, sr, info)]

----------------------------------------------------------------------------
(* main() *)

\* the content of the file an archive path names, when it is opened
FileAt(path) ==
    IF path.where = "local" THEN localDir[path.name] ELSE DictGet(tmpdir.files, path.name)

Prefix == ~args.no_prefix

Running == exitCode = -1

\* tmpdir = Path(tempfile.mkdtemp(prefix='gtfs_'))
Mkdtemp ==
    /\ pc = "start"
    /\ tmpdir' = [exists |-> TRUE, files |-> <<>>]
    /\ pc' = "local"
    /\ UNCHANGED <<args, localDir, urlSources, outInitial, archives, datasets,
                   consolidated_stops, stop_to_agency, clean_stops, route_info,
                   trip_to_route, stop_routes, geo, outFile, exitCode>>

\* if args.local: (not given)
SkipLocal ==
    /\ pc = "local"
    /\ args.local = "none"
    /\ pc' = "urls"
    /\ UNCHANGED <<args, localDir, urlSources, outInitial, tmpdir, archives, datasets,
                   consolidated_stops, stop_to_agency, clean_stops, route_info,
                   trip_to_route, stop_routes, geo, outFile, exitCode>>

\* if not localp.exists(): ...; sys.exit(1)
LocalMissing ==
    /\ pc = "local"
    /\ args.local = "missing"
    /\ pc' = "exited"
    /\ exitCode' = 1
    /\ UNCHANGED <<args, localDir, urlSources, outInitial, tmpdir, archives, datasets,
                   consolidated_stops, stop_to_agency, clean_stops, route_info,
                   trip_to_route, stop_routes, geo, outFile>>

\* archives = load_gtfs_archives_from_local(localp)
LoadLocal ==
    /\ pc = "local"
    /\ args.local = "dir"
    /\ archives' = load_gtfs_archives_from_local(DOMAIN localDir)
    /\ pc' = "urls"
    /\ UNCHANGED <<args, localDir, urlSources, outInitial, tmpdir, datasets,
                   consolidated_stops, stop_to_agency, clean_stops, route_info,
                   trip_to_route, stop_routes, geo, outFile, exitCode>>

\* if args.urls: (not given)
SkipUrls ==
    /\ pc = "urls"
    /\ args.urls = "none"
    /\ pc' = "check"
    /\ UNCHANGED <<args, localDir, urlSources, outInitial, tmpdir, archives, datasets,
                   consolidated_stops, stop_to_agency, clean_stops, route_info,
                   trip_to_route, stop_routes, geo, outFile, exitCode>>

\* with open(args.urls, ...) raises: the list file cannot be read
UrlsFileMissing ==
    /\ pc = "urls"
    /\ args.urls = "missing"
    /\ pc' = "crashed"
    /\ exitCode' = 1
    /\ UNCHANGED <<args, localDir, urlSources, outInitial, tmpdir, archives, datasets,
                   consolidated_stops, stop_to_agency, clean_stops, route_info,
                   trip_to_route, stop_routes, geo, outFile>>

\* archives += load_gtfs_archives_from_urls(urls, tmpdir), every download returning
DownloadAll ==
    /\ pc = "urls"
    /\ args.urls = "file"
    /\ LET r == load_gtfs_archives_from_urls(urlSources, tmpdir.files)
       IN  /\ r.ok
           /\ tmpdir' = [tmpdir EXCEPT !.files = r.files]
           /\ archives' = archives \o r.out
    /\ pc' = "check"
    /\ UNCHANGED <<args, localDir, urlSources, outInitial, datasets,
                   consolidated_stops, stop_to_agency, clean_stops, route_info,
                   trip_to_route, stop_routes, geo, outFile, exitCode>>

\* DownloadFails with the exception swallowed: the run goes on with the
\* archives downloaded before the failure
DownloadFailsSwallowed ==
    /\ pc = "urls"
    /\ args.urls = "file"
    /\ LET r == load_gtfs_archives_from_urls(urlSources, tmpdir.files)
       IN  /\ ~r.ok
           /\ tmpdir' = [tmpdir EXCEPT !.files = r.files]
           /\ archives' = archives \o r.out
    /\ pc' = "check"
    /\ UNCHANGED <<args, localDir, urlSources, outInitial, datasets,
                   consolidated_stops, stop_to_agency, clean_stops, route_info,
                   trip_to_route, stop_routes, geo, outFile, exitCode>>

\* download_to_bytes raises (failure or timeout) inside the loop: the exception
\* leaves main() and the interpreter exits with status 1
DownloadFails ==
    /\ pc = "urls"
    /\ args.urls = "file"
    /\ LET r == load_gtfs_archives_from_urls(urlSources, tmpdir.files)
       IN  /\ ~r.ok
           /\ tmpdir' = [tmpdir EXCEPT !.files = r.files]
    /\ pc' = "crashed"
    /\ exitCode' = 1
    /\ UNCHANGED <<args, localDir, urlSources, outInitial, archives, datasets,
                   consolidated_stops, stop_to_agency, clean_stops, route_info,
                   trip_to_route, stop_routes, geo, outFile>>

\* if not archives: ...; sys.exit(1)
NoArchives ==
    /\ pc = "check"
    /\ archives = <<>>
    /\ pc' = "exited"
    /\ exitCode' = 1
    /\ UNCHANGED <<args, localDir, urlSources, outInitial, tmpdir, archives, datasets,
                   consolidated_stops, stop_to_agency, clean_stops, route_info,
                   trip_to_route, stop_routes, geo, outFile>>

\* datasets = extract_relevant_tables(archives)
Extract ==
    /\ pc = "check"
    /\ archives # <<>>
    /\ datasets' = extract_relevant_tables(archives,
                       [p \in {archives[i].path : i \in 1..Len(archives)} |-> FileAt(p)])
    /\ pc' = "harmonize"
    /\ UNCHANGED <<args, localDir, urlSources, outInitial, tmpdir, archives,
                   consolidated_stops, stop_to_agency, clean_stops, route_info,
                   trip_to_route, stop_routes, geo, outFile, exitCode>>

\* consolidated, stop_to_agency = harmonize_and_consolidate(datasets, prefix=prefix)
Harmonize ==
    /\ pc = "harmonize"
    /\ LET r == harmonize_and_consolidate(datasets, Prefix)
       IN  /\ consolidated_stops' = r.consolidated_stops
           /\ stop_to_agency' = r.stop_to_agency
    /\ pc' = "filter"
    /\ UNCHANGED <<args, localDir, urlSources, outInitial, tmpdir, archives, datasets,
                   clean_stops, route_info, trip_to_route, stop_routes, geo, outFile,
                   exitCode>>

\* clean_stops = filter_and_clean_stops(consolidated)
Filter ==
    /\ pc = "filter"
    /\ clean_stops' = filter_and_clean_stops(consolidated_stops)
    /\ pc' = "routes"
    /\ UNCHANGED <<args, localDir, urlSources, outInitial, tmpdir, archives, datasets,
                   consolidated_stops, stop_to_agency, route_info, trip_to_route,
                   stop_routes, geo, outFile, exitCode>>

\* route_info, trip_to_route = build_route_mappings(datasets, prefix=prefix)
BuildRouteMappings ==
    /\ pc = "routes"
    /\ LET r == build_route_mappings(datasets, Prefix)
       IN  /\ route_info' = r.route_info
           /\ trip_to_route' = r.trip_to_route
    /\ pc' = "enrich"
    /\ UNCHANGED <<args, localDir, urlSources, outInitial, tmpdir, archives, datasets,
                   consolidated_stops, stop_to_agency, clean_stops, stop_routes, geo,
                   outFile, exitCode>>

\* stop_routes = build_stop_to_routes(datasets, trip_to_route, prefix=prefix)
BuildStopToRoutes ==
    /\ pc = "enrich"
    /\ ~args.skip_enrich
    /\ stop_routes' = build_stop_to_routes(datasets, trip_to_route, Prefix)
    /\ pc' = "geojson"
    /\ UNCHANGED <<args, localDir, urlSources, outInitial, tmpdir, archives, datasets,
                   consolidated_stops, stop_to_agency, clean_stops, route_info,
                   trip_to_route, geo, outFile, exitCode>>

\* stop_routes = {} stays: --skip-enrich
SkipEnrich ==
    /\ pc = "enrich"
    /\ args.skip_enrich
    /\ stop_routes' = <<>>
    /\ pc' = "geojson"
    /\ UNCHANGED <<args, localDir, urlSources, outInitial, tmpdir, archives, datasets,
                   consolidated_stops, stop_to_agency, clean_stops, route_info,
                   trip_to_route, geo, outFile, exitCode>>

\* geo = create_geojson(clean_stops, stop_routes, route_info)
CreateGeojson ==
    /\ pc = "geojson"
    /\ geo' = create_geojson(clean_stops, stop_routes, route_info)
    /\ pc' = "write"
    /\ UNCHANGED <<args, localDir, urlSources, outInitial, tmpdir, archives, datasets,
                   consolidated_stops, stop_to_agency, clean_stops, route_info,
                   trip_to_route, stop_routes, outFile, exitCode>>

\* the content json.dump leaves at the output path
Written(features) == [state |-> "written", features |-> features]

\* with open(outp, 'w') ...: json.dump(geo, f, ...); main() returns
WriteOutput ==
    /\ pc = "write"
    /\ outFile' = Written(geo)
    /\ pc' = "done"
    /\ exitCode' = 0
    /\ UNCHANGED <<args, localDir, urlSources, outInitial, tmpdir, archives, datasets,
                   consolidated_stops, stop_to_agency, clean_stops, route_info,
                   trip_to_route, stop_routes, geo>>

Next ==
    \/ Mkdtemp
    \/ SkipLocal
    \/ LocalMissing
    \/ LoadLocal
    \/ SkipUrls
    \/ UrlsFileMissing
    \/ DownloadAll
    \/ DownloadFails
    \/ NoArchives
    \/ Extract
    \/ Harmonize
    \/ Filter
    \/ BuildRouteMappings
    \/ BuildStopToRoutes
    \/ SkipEnrich
    \/ CreateGeojson
    \/ WriteOutput

\* lines 306-314 of main() as a function of the datasets: the features emitted
FeaturesOf(ds, prefix, skip_enrich) ==
    LET h == harmonize_and_consolidate(ds, prefix)
        clean == filter_and_clean_stops(h.consolidated_stops)
        m == build_route_mappings(ds, prefix)
        sr == IF skip_enrich THEN <<>>
              ELSE build_stop_to_routes(ds, m.trip_to_route, prefix)
    IN  create_geojson(clean, sr, m.route_info)

Terminated == pc \in {"done", "exited", "crashed"}

----------------------------------------------------------------------------
(* Inputs *)

\* sequences over S of length at most n
BoundedSeq(S, n) == UNION {[1..k -> S] : k \in 0..n}

MaxUrls == 2        \* lines of the --urls file
MaxStops == 2       \* rows of a stops table whose identifiers vary
MaxFilterRows == 1  \* rows of a stops table whose coordinates and type vary
MaxRoutes == 2      \* rows of a routes table
MaxTrips == 2       \* rows of a trips table

Zip(stem) == stem \o ZipSuffix

DigitChar(i) == CharOrder[Ord("0") + i]

\* a stop_name that tells which file and which row a stop row came from
Marker(c, i) == <<c, DigitChar(i)>>

StopRow(id, name, lat, lon) ==
    [stop_id |-> id, stop_name |-> name, stop_lat |-> lat, stop_lon |-> lon]

RouteRow(id, short) == [route_id |-> id, route_short_name |-> short]
TripRow(tid, rid) == [trip_id |-> tid, route_id |-> rid]
StopTimeRow(tid, sid) == [trip_id |-> tid, stop_id |-> sid]

Lat1 == <<"3", "4", ".", "5">>
Lon1 == <<"3", "3", ".", "0">>

AllArgs ==
    [local : {"none", "missing", "dir"}, urls : {"none", "missing", "file"},
     no_prefix : BOOLEAN, skip_enrich : BOOLEAN]

LocalRun(no_prefix, skip_enrich) ==
    [local |-> "dir", urls |-> "none", no_prefix |-> no_prefix, skip_enrich |-> skip_enrich]

\* an archive holding one stop, one route, one trip and one stop_time, or, with
\* full = FALSE, a stops table alone
SmallArchive(c, full) ==
    LET stops == <<StopRow(<<"S">>, Marker(c, 1), Lat1, Lon1)>>
    IN  IF full
        THEN [t \in TableNames |->
                CASE t = "stops" -> stops
                  [] t = "routes" -> <<RouteRow(<<"R">>, <<"7">>)>>
                  [] t = "trips" -> <<TripRow(<<"T">>, <<"R">>)>>
                  [] t = "stop_times" -> <<StopTimeRow(<<"T">>, <<"S">>)>>]
        ELSE [t \in {"stops"} |-> stops]

UrlSource(last, ok, content) == [last |-> last, ok |-> ok, content |-> content]

\* the start of main(): nothing acquired or computed yet
InitRun ==
    /\ pc = "start"
    /\ tmpdir = [exists |-> FALSE, files |-> <<>>]
    /\ archives = <<>>
    /\ datasets = <<>>
    /\ consolidated_stops = <<>>
    /\ stop_to_agency = <<>>
    /\ clean_stops = <<>>
    /\ route_info = <<>>
    /\ trip_to_route = <<>>
    /\ stop_routes = <<>>
    /\ geo = <<>>
    /\ outFile = [state |-> outInitial, features |-> <<>>]
    /\ exitCode = -1

InitWith(Args, Dirs, Urls, Outs) ==
    /\ args \in Args
    /\ localDir \in (IF args.local = "dir" THEN Dirs ELSE {<<>>})
    /\ urlSources \in (IF args.urls = "file" THEN Urls ELSE {<<>>})
    /\ outInitial \in Outs
    /\ InitRun

\* every command line over one small folder and one URL that downloads or fails
ControlMini ==
    InitWith(AllArgs,
             {[n \in {Zip(<<"z">>)} |-> SmallArchive("z", TRUE)]},
             {<<UrlSource(Zip(<<"q">>), ok, SmallArchive("q", FALSE))>> : ok \in BOOLEAN},
             {"absent"})

\* Control family: folders and URL lists whose names collide or not
ControlFiles == {Zip(<<"x", "-", "y">>), Zip(<<"x", "_", "y">>), Zip(<<"z">>), <<"n", "b">>}

ControlDirs ==
    {[n \in N |-> SmallArchive(n[Len(Stem(n))], n = Zip(<<"z">>))] : N \in SUBSET ControlFiles}

ControlUrlPool ==
    {UrlSource(GtfsZip, TRUE, SmallArchive("a", FALSE)),
     UrlSource(<<>>, TRUE, SmallArchive("b", FALSE)),
     UrlSource(Zip(<<"q">>), TRUE, SmallArchive("q", TRUE)),
     UrlSource(Zip(<<"q">>), FALSE, SmallArchive("q", TRUE))}

Init ==
    InitWith(AllArgs, ControlDirs, BoundedSeq(ControlUrlPool, MaxUrls), {"absent", "old"})

Spec == Init /\ [][Next]_vars

\* Identifier family: folders whose agency codes and stop ids hold underscores
\* and whitespace
IdsFiles == {Zip(<<"x">>), Zip(<<"x", "_", "y">>), Zip(<<"z">>)}
IdPool(n) ==
    IF n = Zip(<<"x">>) THEN {<<"S">>, <<"Y", "_", "S">>} ELSE {<<"S">>, <<" ", "S">>}

IdsArchive(n, ids) ==
    [t \in {"stops"} |->
        [i \in 1..Len(ids) |-> StopRow(ids[i], Marker(n[Len(Stem(n))], i), Lat1, Lon1)]]

IdsDirs ==
    UNION {{[n \in N |-> IdsArchive(n, f[n])] :
                f \in {g \in [N -> BoundedSeq({<<"S">>, <<"Y", "_", "S">>, <<" ", "S">>}, MaxStops)] :
                          \A n \in N : \A i \in 1..Len(g[n]) : g[n][i] \in IdPool(n)}}
           : N \in SUBSET IdsFiles}

InitIds ==
    \/ InitWith({LocalRun(np, FALSE) : np \in BOOLEAN}, IdsDirs, {<<>>}, {"absent"})
    \/ ControlMini

SpecIds == InitIds /\ [][Next]_vars

----------------------------------------------------------------------------
(* Properties of the Identifier Harmonizer *)

AfterHarmonize == pc \in {"filter", "routes", "enrich", "geojson", "write", "done"}

\* every stop row of every dataset with its agency, in load order
RECURSIVE StopStream(_)
StopStream(ds) ==
    IF ds = <<>> THEN <<>>
    ELSE [i \in 1..Len(Head(ds).v.stops) |->
             [ag |-> Head(ds).k, row |-> Head(ds).v.stops[i]]] \o StopStream(Tail(ds))

RawStopId(e) == Strip(Get(e.row, "stop_id"))

\* the entry of the consolidated mapping under id is the row e, untouched
HoldsRow(cons, id, e) ==
    /\ DictHas(cons, id)
    /\ DictGet(cons, id)["_agency"] = e.ag
    /\ DictGet(cons, id)["_orig_stop_id"] = RawStopId(e)
    /\ \A f \in DOMAIN e.row : DictGet(cons, id)[f] = e.row[f]

\* the first row of agency ag in st whose stop_id is S
FirstOf(st, ag, S) ==
    CHOOSE k \in 1..Len(st) :
        /\ st[k].ag = ag /\ RawStopId(st[k]) = S
        /\ \A j \in 1..(k - 1) : ~(st[j].ag = ag /\ RawStopId(st[j]) = S)

\* C1: in prefixing mode, for every two agencies A # B that each have a stop
\* row with the same stop_id S (compared after strip(), as the code reads it),
\* the ids A_S and B_S differ and both are in the consolidated mapping holding
\* that agency's (first) row with S: neither is dropped by a collision.
C1_PrefixingInjective ==
    (AfterHarmonize /\ Prefix) =>
        LET st == StopStream(datasets)
        IN  \A a, b \in 1..Len(st) :
                (/\ st[a].ag # st[b].ag
                 /\ RawStopId(st[a]) = RawStopId(st[b])
                 /\ RawStopId(st[a]) # <<>>) =>
                    LET S == RawStopId(st[a])
                        idA == st[a].ag \o <<"_">> \o S
                        idB == st[b].ag \o <<"_">> \o S
                    IN  /\ idA # idB
                        /\ HoldsRow(consolidated_stops, idA, st[FirstOf(st, st[a].ag, S)])
                        /\ HoldsRow(consolidated_stops, idB, st[FirstOf(st, st[b].ag, S)])

\* C5 as stated: in unprefixed mode, whenever agency A is loaded before agency B
\* and both have a stop row with stop_id S, the single entry S of the mapping
\* holds A's first such row.
C5_EarlierOfAnyPairWins ==
    (AfterHarmonize /\ ~Prefix) =>
        LET st == StopStream(datasets)
        IN  \A a, b \in 1..Len(st) :
                (/\ a < b
                 /\ st[a].ag # st[b].ag
                 /\ RawStopId(st[a]) = RawStopId(st[b])
                 /\ RawStopId(st[a]) # <<>>) =>
                    /\ Cardinality({i \in 1..Len(consolidated_stops) :
                                       consolidated_stops[i].k = RawStopId(st[a])}) = 1
                    /\ HoldsRow(consolidated_stops, RawStopId(st[a]),
                                st[FirstOf(st, st[a].ag, RawStopId(st[a]))])

\* the harmonized id the code gives the k-th row of the stream
StreamId(st, k) == NewStopId(st[k].ag, RawStopId(st[k]), Prefix)

\* the rows of the stream that are the first with their harmonized id
FirstInserted(st) ==
    {k \in 1..Len(st) :
        /\ RawStopId(st[k]) # <<>>
        /\ \A j \in 1..(k - 1) :
              RawStopId(st[j]) # <<>> => StreamId(st, j) # StreamId(st, k)}

\* C5 as amended: in either mode the mapping has exactly one entry per
\* harmonized id; it holds the first row, in load order over all agencies,
\* whose harmonized id it is, and entries are ordered by first insertion.  So
\* in unprefixed mode the entry S is the row of the earliest-loaded agency that
\* has a row with stop_id S.
C5_FirstInsertedWins ==
    AfterHarmonize =>
        LET st == StopStream(datasets)
            firsts == FirstInserted(st)
        IN  /\ Len(consolidated_stops) = Cardinality(firsts)
            /\ \A i \in 1..Len(consolidated_stops) :
                  \E k \in firsts :
                      /\ consolidated_stops[i].k = StreamId(st, k)
                      /\ HoldsRow(consolidated_stops, StreamId(st, k), st[k])
                      /\ DOMAIN consolidated_stops[i].v =
                            DOMAIN st[k].row \cup {"_orig_stop_id", "_agency"}
                      /\ Cardinality({j \in firsts : j < k}) = i - 1
            /\ \A i \in 1..Len(stop_to_agency) :
                  /\ DictHas(consolidated_stops, stop_to_agency[i].k)
                  /\ stop_to_agency[i].v =
                        DictGet(consolidated_stops, stop_to_agency[i].k)["_agency"]

\* an unprefixed run in which three agencies have a row with the same stop_id
\* and a later row in the first of them repeats it: one entry was kept
C5_Witness ==
    /\ AfterHarmonize /\ ~Prefix
    /\ Len(datasets) = 3
    /\ \A d \in 1..3 : \E i \in 1..Len(datasets[d].v.stops) :
          Strip(Get(datasets[d].v.stops[i], "stop_id")) = <<"S">>
    /\ Len(datasets[1].v.stops) = 2
    /\ Strip(Get(datasets[1].v.stops[2], "stop_id")) = <<"S">>
    /\ DictHas(consolidated_stops, <<"S">>)
    /\ DictGet(consolidated_stops, <<"S">>)["stop_name"] = Get(datasets[1].v.stops[1], "stop_name")

----------------------------------------------------------------------------
(* Filter family: one archive whose stop rows vary in coordinates and type *)

LatTexts == {<<>>, <<"x">>, Lat1, <<"n", "a", "n">>}
FallbackLatTexts == {<<>>, <<"3", "5">>}
LonTexts == {<<>>, Lon1, <<"i", "n", "f">>}
LocationTypeTexts ==
    {<<>>, <<"0">>, <<"1">>, <<"2">>, <<" ", "1", " ">>, <<"1", ".", "0">>, <<"-", "1">>}

\* the stop rows of a table whose header has a location_type column
TypedStopRows ==
    [stop_id : {<<"S">>}, stop_lat : LatTexts, lat : FallbackLatTexts,
     stop_lon : LonTexts, location_type : LocationTypeTexts]

\* the stop rows of a table whose header has none
UntypedStopRows ==
    [stop_id : {<<"S">>}, stop_lat : LatTexts, lat : FallbackLatTexts, stop_lon : LonTexts]

\* the i-th row gets the stop_id S<i>
Numbered(rows) ==
    [i \in 1..Len(rows) |-> [rows[i] EXCEPT !.stop_id = <<"S", DigitChar(i)>>]]

FilterDirs ==
    {[n \in {Zip(<<"z">>)} |-> [t \in {"stops"} |-> Numbered(rows)]] :
        rows \in BoundedSeq(TypedStopRows, MaxFilterRows)
                    \cup BoundedSeq(UntypedStopRows, MaxFilterRows)}

InitFilter ==
    \/ InitWith({LocalRun(FALSE, FALSE)}, FilterDirs, {<<>>}, {"absent"})
    \/ ControlMini

SpecFilter == InitFilter /\ [][Next]_vars

AfterFilter == pc \in {"routes", "enrich", "geojson", "write", "done"}

\* text that parses as a finite floating-point number
ParsesFinite(t) == ParseFloat(t).ok /\ IsFinite(ParseFloat(t).val)

\* C3: a consolidated row is kept only if its latitude and its longitude text
\* (stop_lat/stop_lon, else lat/lon) both parse as finite floats; every
\* CleanStop has finite lat and lon.
C3_CoordinatesFinite ==
    AfterFilter =>
        /\ \A i \in 1..Len(consolidated_stops) :
              LET row == consolidated_stops[i].v
                  lat == IF Get(row, "stop_lat") # <<>> THEN Get(row, "stop_lat")
                         ELSE Get(row, "lat")
                  lon == IF Get(row, "stop_lon") # <<>> THEN Get(row, "stop_lon")
                         ELSE Get(row, "lon")
              IN  DictHas(clean_stops, consolidated_stops[i].k) =>
                      ParsesFinite(lat) /\ ParsesFinite(lon)
        /\ \A i \in 1..Len(clean_stops) :
              IsFinite(clean_stops[i].v.stop_lat) /\ IsFinite(clean_stops[i].v.stop_lon)

\* C4: a consolidated row with valid coordinates is a CleanStop iff its
\* location_type is empty, is not parseable as an integer, or parses to 0 or 1;
\* the stored location_type is 0 in the first two cases and the parsed value
\* otherwise, so every CleanStop has location_type 0 or 1.
C4_LocationTypeRule ==
    AfterFilter =>
        /\ \A i \in 1..Len(consolidated_stops) :
              LET sid == consolidated_stops[i].k
                  row == consolidated_stops[i].v
                  raw == IF "location_type" \in DOMAIN row THEN row["location_type"] ELSE <<>>
                  p == ParseInt(raw)
                  defaulted == raw = <<>> \/ ~p.ok
              IN  ValidCoord(row) =>
                      /\ DictHas(clean_stops, sid) <=> (defaulted \/ p.val \in {0, 1})
                      /\ DictHas(clean_stops, sid) =>
                            DictGet(clean_stops, sid).location_type =
                                (IF defaulted THEN 0 ELSE p.val)
        /\ \A i \in 1..Len(clean_stops) : clean_stops[i].v.location_type \in {0, 1}

\* a row with valid coordinates and the unparseable location_type "1.0" was
\* kept with location_type 0
C4_Witness ==
    /\ AfterFilter
    /\ \E i \in 1..Len(consolidated_stops) :
          /\ ValidCoord(consolidated_stops[i].v)
          /\ Get(consolidated_stops[i].v, "location_type") = <<"1", ".", "0">>
          /\ DictHas(clean_stops, consolidated_stops[i].k)
          /\ DictGet(clean_stops, consolidated_stops[i].k).location_type = 0

----------------------------------------------------------------------------
(* Join family: archive x with varying routes, trips and stop_times, alone or
   followed by archive z whose ids repeat those of x *)

R1 == <<"R", "1">>
R2 == <<"R", "2">>
T1 == <<"T", "1">>
T2 == <<"T", "2">>

RoutePool == {RouteRow(R1, <<"7">>), RouteRow(R2, <<"1", "2">>), RouteRow(R2, <<"7">>)}
TripPool == {TripRow(T1, R1), TripRow(T1, R2), TripRow(T2, R2)}
StopTimeList ==
    <<StopTimeRow(T1, <<"S", "1">>), StopTimeRow(T1, <<"S", "3">>),
      StopTimeRow(T2, <<"S", "1">>)>>

\* the stop_times tables of x: none, one trip at two stops, two trips at one
\* stop, or all three rows
StopTimeKeeps == {{}, {1, 2}, {1, 3}, {1, 2, 3}}

\* the rows of list whose positions are in keep, in order
RECURSIVE Pick(_, _)
Pick(list, keep) ==
    IF list = <<>> THEN <<>>
    ELSE Pick(SubSeq(list, 1, Len(list) - 1), keep)
            \o (IF Len(list) \in keep THEN <<list[Len(list)]>> ELSE <<>>)

\* S1 and S3 are mappable stops, S2 is an entrance (location_type 2)
JoinStops ==
    <<[stop_id |-> <<"S", "1">>, stop_lat |-> Lat1, stop_lon |-> Lon1, location_type |-> <<"0">>],
      [stop_id |-> <<"S", "2">>, stop_lat |-> Lat1, stop_lon |-> Lon1, location_type |-> <<"2">>],
      [stop_id |-> <<"S", "3">>, stop_lat |-> <<"3", "5">>, stop_lon |-> Lon1, location_type |-> <<>>]>>

JoinArchiveX(routes, trips, keep) ==
    [t \in TableNames |->
        CASE t = "stops" -> JoinStops
          [] t = "routes" -> routes
          [] t = "trips" -> trips
          [] t = "stop_times" -> Pick(StopTimeList, keep)]

\* z repeats x's stop S1, trip T1 and route R2, and has a route without a
\* short name
JoinArchiveZ ==
    [t \in TableNames |->
        CASE t = "stops" ->
                <<[stop_id |-> <<"S", "1">>, stop_lat |-> <<"3", "5">>, stop_lon |-> Lon1,
                   location_type |-> <<"1">>],
                  [stop_id |-> <<"S", "4">>, stop_lat |-> Lat1, stop_lon |-> Lon1,
                   location_type |-> <<"0">>]>>
          [] t = "routes" -> <<RouteRow(R2, <<"5">>), RouteRow(<<"R", "3">>, <<>>)>>
          [] t = "trips" -> <<TripRow(T1, R2), TripRow(<<"T", "3">>, <<"R", "3">>)>>
          [] t = "stop_times" ->
                <<StopTimeRow(T1, <<"S", "4">>), StopTimeRow(<<"T", "3">>, <<"S", "4">>)>>]

JoinDirs ==
    UNION {{[n \in {Zip(<<"x">>)} |-> JoinArchiveX(routes, trips, keep)],
            [n \in {Zip(<<"x">>), Zip(<<"z">>)} |->
                IF n = Zip(<<"x">>) THEN JoinArchiveX(routes, trips, keep) ELSE JoinArchiveZ]}
           : routes \in BoundedSeq(RoutePool, MaxRoutes),
             trips \in BoundedSeq(TripPool, MaxTrips),
             keep \in StopTimeKeeps}

InitJoin ==
    \/ InitWith({LocalRun(np, FALSE) : np \in BOOLEAN}, JoinDirs, {<<>>}, {"absent"})
    \/ ControlMini

SpecJoin == InitJoin /\ [][Next]_vars

AfterJoin == pc \in {"geojson", "write", "done"}
AfterGeojson == pc \in {"write", "done"}

IsStrictlySorted(list) == \A i \in 1..(Len(list) - 1) : StrLess(list[i], list[i + 1])

\* C6: for every stop the list of routes serving it is lexicographically sorted
\* and free of duplicates, as the list of route ids build_stop_to_routes
\* returns and as the routes_serving list of the stop's Feature.
C6_RouteListsSortedDistinct ==
    /\ AfterJoin => \A i \in 1..Len(stop_routes) : IsStrictlySorted(stop_routes[i].v)
    /\ AfterGeojson => \A i \in 1..Len(geo) : IsStrictlySorted(geo[i].properties.routes_serving)

\* the position of key k in dict d
IndexOf(d, k) == CHOOSE i \in 1..Len(d) : d[i].k = k

\* C10: the features correspond one to one and in order to the CleanStop
\* mapping: the i-th Feature has the i-th CleanStop's harmonized id and the
\* coordinates [lon, lat] parsed from that stop's consolidated row; CleanStops
\* are the rows that pass the filter in harmonizer order; a stop with no
\* entry in StopRoutes is emitted with routes_serving = []; no other Feature
\* exists.
C10_FeaturesMirrorCleanStops ==
    AfterGeojson =>
        /\ Len(geo) = Len(clean_stops)
        /\ \A i \in 1..Len(geo) :
              LET sid == clean_stops[i].k
                  row == DictGet(consolidated_stops, sid)
              IN  /\ geo[i].id = sid
                  /\ geo[i].properties.stop_id = sid
                  /\ DictHas(consolidated_stops, sid)
                  /\ geo[i].coordinates =
                        <<ParseFloat(LonText(row)).val, ParseFloat(LatText(row)).val>>
                  /\ ~DictHas(stop_routes, sid) => geo[i].properties.routes_serving = <<>>
        /\ \A i, j \in 1..Len(clean_stops) :
              i < j => IndexOf(consolidated_stops, clean_stops[i].k)
                          < IndexOf(consolidated_stops, clean_stops[j].k)
        /\ \A i \in 1..Len(consolidated_stops) :
              DictHas(clean_stops, consolidated_stops[i].k)
                  <=> (ValidCoord(consolidated_stops[i].v)
                         /\ LocationType(consolidated_stops[i].v) \in {0, 1})

\* a finished run whose harmonizer kept three stops, the second of which the
\* filter dropped, and whose second Feature is a stop no route serves
C10_Witness ==
    /\ pc = "done"
    /\ Len(consolidated_stops) = 3 /\ Len(clean_stops) = 2 /\ Len(geo) = 2
    /\ ~DictHas(clean_stops, consolidated_stops[2].k)
    /\ geo[2].id = consolidated_stops[3].k
    /\ DictHas(stop_routes, geo[1].id)
    /\ ~DictHas(stop_routes, geo[2].id)
    /\ geo[1].properties.routes_serving # <<>>
    /\ geo[2].properties.routes_serving = <<>>
    /\ geo[2].coordinates[1] # geo[2].coordinates[2]

----------------------------------------------------------------------------
(* Join correctness *)

\* the datasets with row i of the trips table of dataset d removed
RemoveTrip(ds, d, i) ==
    [ds EXCEPT ![d].v.trips =
        SubSeq(ds[d].v.trips, 1, i - 1) \o SubSeq(ds[d].v.trips, i + 1, Len(ds[d].v.trips))]

\* routes_serving of the Feature with id sid, <<>> when there is none
ServingOf(features, sid) ==
    IF \E i \in 1..Len(features) : features[i].id = sid
    THEN features[CHOOSE i \in 1..Len(features) : features[i].id = sid].properties.routes_serving
    ELSE <<>>

Elems(list) == {list[i] : i \in 1..Len(list)}

\* list without its i-th element
Without(list, i) == SubSeq(list, 1, i - 1) \o SubSeq(list, i + 1, Len(list))

\* the id of text under agency ag in the run's prefixing mode
Harmonized(ag, text) == IF Prefix THEN ag \o <<"_">> \o text ELSE text

Field(row, f) == Strip(Get(row, f))

\* C2 as stated (enrichment on, N not empty): whenever a dataset has a
\* stop_times row (S, T), a trips row (T, R) and a routes row (R, N) and S is a
\* CleanStop, the Feature of S has N in routes_serving; and without that trips
\* row N is not in the Feature's routes_serving, its other entries are the
\* same, and every other Feature is the same.
C2_JoinCorrect ==
    (pc = "done" /\ ~args.skip_enrich) =>
        \A d \in 1..Len(datasets) :
            LET ag == datasets[d].k
                v == datasets[d].v
            IN  \A s \in 1..Len(v.stop_times), t \in 1..Len(v.trips), r \in 1..Len(v.routes) :
                    LET S == Field(v.stop_times[s], "stop_id")
                        T == Field(v.stop_times[s], "trip_id")
                        R == Field(v.trips[t], "route_id")
                        N == Get(v.routes[r], "route_short_name")
                        sid == Harmonized(ag, S)
                        after == FeaturesOf(RemoveTrip(datasets, d, t), Prefix, FALSE)
                    IN  (/\ S # <<>> /\ T # <<>> /\ R # <<>> /\ N # <<>>
                         /\ Field(v.trips[t], "trip_id") = T
                         /\ Field(v.routes[r], "route_id") = R
                         /\ DictHas(clean_stops, sid)) =>
                            /\ N \in Elems(ServingOf(geo, sid))
                            /\ N \notin Elems(ServingOf(after, sid))
                            /\ Elems(ServingOf(after, sid)) = Elems(ServingOf(geo, sid)) \ {N}
                            /\ Len(after) = Len(geo)
                            /\ \A i \in 1..Len(geo) : geo[i].id # sid => after[i] = geo[i]

\* every trips row of every dataset with its agency and place, in load order
RECURSIVE TripStream(_, _)
TripStream(ds, d) ==
    IF d > Len(ds) THEN <<>>
    ELSE [i \in 1..Len(ds[d].v.trips) |->
             [ag |-> ds[d].k, row |-> ds[d].v.trips[i], d |-> d, i |-> i]]
            \o TripStream(ds, d + 1)

RECURSIVE RouteStream(_)
RouteStream(ds) ==
    IF ds = <<>> THEN <<>>
    ELSE [i \in 1..Len(Head(ds).v.routes) |->
             [ag |-> Head(ds).k, row |-> Head(ds).v.routes[i]]] \o RouteStream(Tail(ds))

RECURSIVE StopTimeStream(_)
StopTimeStream(ds) ==
    IF ds = <<>> THEN <<>>
    ELSE [i \in 1..Len(Head(ds).v.stop_times) |->
             [ag |-> Head(ds).k, row |-> Head(ds).v.stop_times[i]]] \o StopTimeStream(Tail(ds))

\* a trips row that enters trip_to_route, and the ids it enters under
TripCounts(e) == Field(e.row, "trip_id") # <<>> /\ Field(e.row, "route_id") # <<>>
TripIdOf(e) == Harmonized(e.ag, Field(e.row, "trip_id"))
TripRouteOf(e) == Harmonized(e.ag, Field(e.row, "route_id"))

\* the last rows of ts with harmonized trip id tau (none or one)
LastTrips(ts, tau) ==
    {k \in 1..Len(ts) :
        /\ TripCounts(ts[k]) /\ TripIdOf(ts[k]) = tau
        /\ \A j \in (k + 1)..Len(ts) : ~(TripCounts(ts[j]) /\ TripIdOf(ts[j]) = tau)}

RouteCounts(e) == Field(e.row, "route_id") # <<>>
RouteIdOf(e) == Harmonized(e.ag, Field(e.row, "route_id"))

LastRoutes(rs, rho) ==
    {k \in 1..Len(rs) :
        /\ RouteCounts(rs[k]) /\ RouteIdOf(rs[k]) = rho
        /\ \A j \in (k + 1)..Len(rs) : ~(RouteCounts(rs[j]) /\ RouteIdOf(rs[j]) = rho)}

\* a stop_times row that joins, and the ids it joins under
StopTimeCounts(e) == Field(e.row, "stop_id") # <<>> /\ Field(e.row, "trip_id") # <<>>
StopTimeStop(e) == Harmonized(e.ag, Field(e.row, "stop_id"))
StopTimeTrip(e) == Harmonized(e.ag, Field(e.row, "trip_id"))

\* C2 as amended, first half (enrichment on): whenever a dataset has a
\* stop_times row (S, T), the last trips row in load order with the harmonized
\* trip id of T has harmonized route id rho, the last routes row with
\* harmonized id rho has the non-empty short name N, and the harmonized S is a
\* CleanStop, the Feature of S has N in routes_serving.
C2_LastRowsJoin ==
    (pc = "done" /\ ~args.skip_enrich) =>
        LET ts == TripStream(datasets, 1)
            rs == RouteStream(datasets)
            ss == StopTimeStream(datasets)
        IN  \A s \in 1..Len(ss) :
                StopTimeCounts(ss[s]) =>
                    \A k \in LastTrips(ts, StopTimeTrip(ss[s])) :
                        \A r \in LastRoutes(rs, TripRouteOf(ts[k])) :
                            LET N == Get(rs[r].row, "route_short_name")
                            IN  (N # <<>> /\ DictHas(clean_stops, StopTimeStop(ss[s]))) =>
                                    N \in Elems(ServingOf(geo, StopTimeStop(ss[s])))

\* C2 as amended, second half: removing a trips row that is the only one with
\* its harmonized trip id tau (route rho) leaves every Feature the same but for
\* routes_serving, leaves the Feature of every stop with no stop_times row of
\* tau wholly the same, and takes from routes_serving of a stop with such a row
\* exactly the entry of rho, and only when no other stop_times row of the stop
\* reaches rho through another trip.
C2_RemovalIsLocal ==
    (pc = "done" /\ ~args.skip_enrich) =>
        LET ts == TripStream(datasets, 1)
            ss == StopTimeStream(datasets)
        IN  \A k \in 1..Len(ts) :
                (/\ TripCounts(ts[k])
                 /\ \A j \in 1..Len(ts) :
                       (j # k /\ TripCounts(ts[j])) => TripIdOf(ts[j]) # TripIdOf(ts[k])) =>
                    LET tau == TripIdOf(ts[k])
                        rho == TripRouteOf(ts[k])
                        after == FeaturesOf(RemoveTrip(datasets, ts[k].d, ts[k].i), Prefix, FALSE)
                        Touched(sid) ==
                            \E s \in 1..Len(ss) :
                                /\ StopTimeCounts(ss[s]) /\ StopTimeStop(ss[s]) = sid
                                /\ StopTimeTrip(ss[s]) = tau
                        Other(sid) ==
                            \E s \in 1..Len(ss) :
                                /\ StopTimeCounts(ss[s]) /\ StopTimeStop(ss[s]) = sid
                                /\ StopTimeTrip(ss[s]) # tau
                                /\ \E j \in LastTrips(ts, StopTimeTrip(ss[s])) :
                                      TripRouteOf(ts[j]) = rho
                    IN  /\ Len(after) = Len(geo)
                        /\ \A i \in 1..Len(geo) :
                              LET sid == geo[i].id
                                  rlist == RoutesOf(stop_routes, sid)
                                  serving == geo[i].properties.routes_serving
                              IN  /\ after[i].id = sid
                                  /\ after[i] = [geo[i] EXCEPT !.properties.routes_serving =
                                                    after[i].properties.routes_serving]
                                  /\ (~Touched(sid) \/ Other(sid)) => after[i] = geo[i]
                                  /\ (Touched(sid) /\ ~Other(sid)) =>
                                        \E q \in 1..Len(rlist) :
                                            /\ rlist[q] = rho
                                            /\ after[i].properties.routes_serving
                                                  = Without(serving, q)

C2_Amended == C2_LastRowsJoin /\ C2_RemovalIsLocal

\* a finished run of two agencies in which a trips row that alone carries its
\* trip id is the only way one stop reaches a route: without the row that
\* Feature goes from two routes_serving entries to one, while another served
\* Feature stays as it is
C2_Witness ==
    /\ pc = "done" /\ ~args.skip_enrich
    /\ Len(datasets) = 2
    /\ LET ts == TripStream(datasets, 1)
       IN  \E k \in 1..Len(ts) :
               /\ TripCounts(ts[k])
               /\ \A j \in 1..Len(ts) :
                     (j # k /\ TripCounts(ts[j])) => TripIdOf(ts[j]) # TripIdOf(ts[k])
               /\ LET after == FeaturesOf(RemoveTrip(datasets, ts[k].d, ts[k].i), Prefix, FALSE)
                  IN  \E i, i2 \in 1..Len(geo) :
                          /\ Len(geo[i].properties.routes_serving) = 2
                          /\ Len(after[i].properties.routes_serving) = 1
                          /\ i2 # i
                          /\ geo[i2].properties.routes_serving # <<>>
                          /\ after[i2] = geo[i2]

----------------------------------------------------------------------------
(* Properties of main() *)

AfterExtract ==
    pc \in {"harmonize", "filter", "routes", "enrich", "geojson", "write", "done"}

\* the number of archives the local folder yields
LocalCount ==
    IF args.local = "dir" THEN Cardinality({n \in DOMAIN localDir : EndsWith(n, ZipSuffix)})
    ELSE 0

\* the content the i-th archive of main()'s list had at its source
SourceContent(i) ==
    IF i <= LocalCount THEN localDir[archives[i].path.name]
    ELSE urlSources[i - LocalCount].content

\* C7: extract_relevant_tables yields one Dataset per input archive, and the
\* rows of the four tables of every archive are in its dataset (a table the
\* archive lacks being empty).
C7_OneDatasetPerArchive ==
    AfterExtract =>
        /\ Len(datasets) = Len(archives)
        /\ \A i \in 1..Len(archives) :
              \E d \in 1..Len(datasets) :
                  /\ datasets[d].k = archives[i].ag
                  /\ \A t \in TableNames :
                        datasets[d].v[t] =
                            (IF t \in DOMAIN SourceContent(i) THEN SourceContent(i)[t] ELSE <<>>)

Untouched == [state |-> outInitial, features |-> <<>>]

\* C8: on every aborting path (local folder missing, no archive found, a
\* download failing, the URL list unreadable) the run ends with a non-zero exit
\* and the output file as it was; the output file is written only after every
\* archive has been acquired and every stage has completed.
C8_NoPartialOutput ==
    /\ pc \in {"exited", "crashed"} => (exitCode # 0 /\ outFile = Untouched)
    /\ pc # "done" => outFile = Untouched
    /\ outFile # Untouched =>
          /\ pc = "done" /\ exitCode = 0
          /\ args.local # "missing" /\ args.urls # "missing"
          /\ args.urls = "file" => \A i \in 1..Len(urlSources) : urlSources[i].ok
          /\ Len(archives) = LocalCount + Len(urlSources)
          /\ archives # <<>>
          /\ outFile = Written(FeaturesOf(datasets, Prefix, args.skip_enrich))

\* a run that crashed on its second download, after the first was stored, and
\* left the old output file as it was
C8_Witness ==
    /\ pc = "crashed"
    /\ exitCode = 1
    /\ Len(urlSources) = 2 /\ urlSources[1].ok /\ ~urlSources[2].ok
    /\ Len(tmpdir.files) = 1
    /\ outInitial = "old"
    /\ outFile = Untouched

\* C9: in every terminated run, completed or aborted, the temporary directory
\* and the archive files written into it no longer exist.
C9_TmpdirReleased ==
    Terminated => (~tmpdir.exists /\ tmpdir.files = <<>>)

====
